---- MODULE Spec2Model ----
(***************************************************************************)
(* Model of the earnings-call analysis pipeline:                           *)
(*   StockDataFetcher.fetch_historical_data / save_historical_data /       *)
(*   load_historical_data, plot_candle_interactive                         *)
(*   (src/src/FinanceFetch_Cdahlback/stock_data_fetcher.py), and           *)
(*   TextSummarizer (src/src/GPTWrapper/text_summarizer.py) as driven by   *)
(*   its run() and by the /summarize route (src/src/app/app.py).           *)
(*                                                                         *)
(* Time.  A timestamp is a wall-clock reading [day, hour]; the timezone    *)
(* belongs to the index that holds it (pandas: DatetimeIndex.tz), and is   *)
(* "naive" (tz None), "UTC" or "America/New_York".  Days are counted from  *)
(* day 0 of the modelled window, hours 0..23.  New York is UTC-5 and, from *)
(* 02:00 local on day DstDay, UTC-4.                                       *)
(***************************************************************************)
EXTENDS Integers, Sequences, FiniteSets, TLC

VARIABLES
    gateway,       \* what yfinance returns: [barsTz, bars, earnTz, earnings]
    fetchResult,   \* None, or the outcome of fetch_historical_data
    series,        \* the DataFrame handed to save_historical_data
    csv,           \* None, or the text of the CSV file
    loaded,        \* None, or the DataFrame load_historical_data returned
    data,          \* the caller's DataFrame passed to plot_candle_interactive
    dataBefore,    \* that DataFrame as it was before the call
    plotArgs,      \* None, or <<[start_date, end_date]>> of the call
    plotResult,    \* None, or the outcome of plot_candle_interactive
    text_content,  \* TextSummarizer.text_content
    summary,       \* TextSummarizer.summary
    lastCall,      \* the summarizer call made last, and how it went
    modelCalls,    \* number of invocations of self.model
    escaped        \* TRUE once an exception has left a summarizer method

vars == <<gateway, fetchResult, series, csv, loaded, data, dataBefore,
          plotArgs, plotResult, text_content, summary, lastCall, modelCalls,
          escaped>>

fetchVars == <<gateway, fetchResult>>
codecVars == <<series, csv, loaded>>
chartVars == <<data, dataBefore, plotArgs, plotResult>>
summarizerVars == <<text_content, summary, lastCall, modelCalls, escaped>>

(***************************************************************************)
(* Bounds of the model.                                                    *)
(***************************************************************************)
MaxBars == 2        \* longest bar sequence
MaxEarnings == 2    \* longest earnings-date sequence
MaxDay == 2         \* calendar days 0..MaxDay
DstDay == 1         \* day on which daylight saving time begins
MaxLen == 2         \* longest text (characters)
MaxCalls == 2       \* most model invocations followed

Days == 0..MaxDay

(***************************************************************************)
(* Python's None, and an optional value.                                   *)
(***************************************************************************)
None == <<>>
Some(v) == <<v>>
IsNone(o) == o = <<>>
Get(o) == o[1]

SeqsUpTo(S, n) == UNION {[1..k -> S] : k \in 0..n}

RECURSIVE SelectIdx(_, _, _)
\* The indices i of 1..n with keep[i], ascending: a boolean-mask selection.
SelectIdx(keep, i, n) ==
    IF i > n THEN <<>>
    ELSE IF keep[i] THEN <<i>> \o SelectIdx(keep, i + 1, n)
    ELSE SelectIdx(keep, i + 1, n)

(***************************************************************************)
(* Timezones.                                                              *)
(***************************************************************************)
Naive == "naive"
UTC == "UTC"
NewYork == "America/New_York"
Timezones == {Naive, UTC, NewYork}

Aware(tz) == tz # Naive

\* Offset from UTC, in hours, of New York wall-clock time [day, hour].
NYOffsetWall(w) ==
    IF w.day > DstDay \/ (w.day = DstDay /\ w.hour >= 3) THEN -4 ELSE -5

\* Offset from UTC, in hours, of New York at the instant i (hours UTC).
NYOffsetAt(i) == IF i >= DstDay * 24 + 7 THEN -4 ELSE -5

\* The UTC offset a wall-clock reading carries in timezone tz.
OffsetOf(tz, w) == IF tz = NewYork THEN NYOffsetWall(w) ELSE 0

\* pandas' i8 value of a timestamp: hours since day 0, 00:00 UTC.  A naive
\* timestamp's value is its wall-clock reading.
Instant(tz, w) == w.day * 24 + w.hour - OffsetOf(tz, w)

\* The wall-clock reading of instant i in timezone tz (tz_convert).
WallAt(tz, i) ==
    LET local == IF tz = NewYork THEN i + NYOffsetAt(i) ELSE i
    IN [day |-> local \div 24, hour |-> local % 24]

\* DatetimeIndex.normalize(): midnight of the same wall-clock day, same tz.
normalize(idx) == [i \in DOMAIN idx |-> [idx[i] EXCEPT !.hour = 0]]

\* DatetimeIndex.isin(values): a timezone-awareness mismatch makes every
\* entry False; otherwise the i8 values (instants) are compared.
isin(tz, w, valuesTz, values) ==
    IF Aware(tz) # Aware(valuesTz) THEN FALSE
    ELSE \E j \in DOMAIN values : Instant(valuesTz, values[j]) = Instant(tz, w)

\* tz_localize(tz) on an index or timestamp whose timezone is `have`:
\* attaches tz to a naive value, removes the timezone when tz is None, and
\* raises TypeError on an aware value otherwise.
tz_localize(have, tz) ==
    IF tz = Naive THEN [raised |-> FALSE, tz |-> Naive]
    ELSE IF Aware(have) THEN [raised |-> TRUE, tz |-> have]
    ELSE [raised |-> FALSE, tz |-> tz]

(***************************************************************************)
(* DataFrames: [tz, columns, rows]; tz is the index's timezone, a row maps *)
(* "index" and every column name to a value.                               *)
(***************************************************************************)
QuoteColumns == {"Open", "High", "Low", "Close", "Volume"}

\* df[name] = values (one per row): adds or overwrites a column.
SetColumn(df, name, values) ==
    [df EXCEPT !.columns = @ \cup {name},
               !.rows = [i \in DOMAIN df.rows |-> (name :> values[i]) @@ df.rows[i]]]

\* df[mask]: the rows whose mask entry is True, in order (a new frame).
Mask(df, keep) ==
    LET idx == SelectIdx(keep, 1, Len(df.rows))
    IN [df EXCEPT !.rows = [k \in DOMAIN idx |-> df.rows[idx[k]]]]

(***************************************************************************)
(* StockDataFetcher.fetch_historical_data                                  *)
(***************************************************************************)
\* The localization without the guard of line 37.
FetchLocalizeUnguarded(tz) == tz_localize(tz, NewYork)

\* Lines 36-38: localize the index unless it is already tz-aware.
FetchLocalize(tz) ==
    IF tz = Naive THEN tz_localize(tz, NewYork)
    ELSE [raised |-> FALSE, tz |-> tz]

fetch_historical_data(g) ==
    LET earnings_index == normalize(g.earnings)
        index == normalize([i \in DOMAIN g.bars |-> g.bars[i].index])
        df == [tz |-> g.barsTz, columns |-> QuoteColumns,
               rows |-> [i \in DOMAIN g.bars |-> [g.bars[i] EXCEPT !.index = index[i]]]]
        flags == [i \in DOMAIN index |-> isin(g.barsTz, index[i], g.earnTz, earnings_index)]
        annotated == SetColumn(df, "HasEarningsReport", flags)
        localized == FetchLocalize(g.barsTz)
    IN IF localized.raised
       THEN [raised |-> TRUE, df |-> None]
       ELSE [raised |-> FALSE, df |-> Some([annotated EXCEPT !.tz = localized.tz])]

\* What the gateway may return.
BarHours == {0, 21}
EarningsHours == {16}
ValidQuote == [Open |-> 4, High |-> 6, Low |-> 3, Close |-> 5, Volume |-> 10]
FetchQuotes == {
    ValidQuote,
    [Open |-> 4, High |-> 3, Low |-> 6, Close |-> 5, Volume |-> 10],
    [Open |-> 4, High |-> 6, Low |-> 3, Close |-> 5, Volume |-> -1]}

RawBar(w, q) ==
    [index |-> w, Open |-> q.Open, High |-> q.High, Low |-> q.Low,
     Close |-> q.Close, Volume |-> q.Volume]

RawBars(hours, quotes) ==
    {RawBar([day |-> d, hour |-> h], q) : d \in Days, h \in hours, q \in quotes}

Gateways(quotes, maxEarnings) ==
    [barsTz : Timezones,
     bars : SeqsUpTo(RawBars(BarHours, quotes), MaxBars),
     earnTz : Timezones,
     earnings : SeqsUpTo([day : Days, hour : EarningsHours], maxEarnings)]

EmptyFrame == [tz |-> Naive, columns |-> {}, rows |-> <<>>]
EmptyGateway == [barsTz |-> Naive, bars |-> <<>>, earnTz |-> Naive, earnings |-> <<>>]

IdleFetch == gateway = EmptyGateway /\ fetchResult = None
IdleCodec == series = EmptyFrame /\ csv = None /\ loaded = None
IdleChart ==
    data = EmptyFrame /\ dataBefore = EmptyFrame /\ plotArgs = None /\ plotResult = None
IdleSummarizer ==
    /\ text_content = None /\ summary = None
    /\ lastCall = [method |-> "__init__", branch |-> "constructed"]
    /\ modelCalls = 0 /\ escaped = FALSE

InitFetch ==
    /\ gateway \in Gateways(FetchQuotes, MaxEarnings)
    /\ fetchResult = None
    /\ IdleCodec /\ IdleChart /\ IdleSummarizer

Fetch ==
    /\ fetchResult = None
    /\ fetchResult' = Some(fetch_historical_data(gateway))
    /\ UNCHANGED <<gateway, codecVars, chartVars, summarizerVars>>

NextFetch == Fetch

SpecFetch == InitFetch /\ [][NextFetch]_vars

\* The same call on the inputs the timezone-resolution step is studied with.
InitLocalize ==
    /\ gateway \in Gateways({ValidQuote}, 1)
    /\ fetchResult = None
    /\ IdleCodec /\ IdleChart /\ IdleSummarizer

SpecLocalize == InitLocalize /\ [][NextFetch]_vars

(***************************************************************************)
(* save_historical_data / load_historical_data: the CSV file               *)
(***************************************************************************)
\* Decimal text of an integer: whether it starts with "-", and the digits,
\* most significant first.
RECURSIVE Digits(_)
Digits(n) == IF n < 10 THEN <<n>> ELSE Append(Digits(n \div 10), n % 10)

FormatInt(n) ==
    IF n < 0 THEN [minus |-> TRUE, digits |-> Digits(-n)]
    ELSE [minus |-> FALSE, digits |-> Digits(n)]

RECURSIVE DigitsValue(_)
DigitsValue(ds) ==
    IF ds = <<>> THEN 0 ELSE DigitsValue(SubSeq(ds, 1, Len(ds) - 1)) * 10 + ds[Len(ds)]

ParseInt(t) == IF t.minus THEN -DigitsValue(t.digits) ELSE DigitsValue(t.digits)

FormatBool(b) == IF b THEN "True" ELSE "False"
ParseBool(t) == t = "True"

\* str(Timestamp): the wall-clock reading, followed by the UTC offset when
\* the timestamp is tz-aware ("2024-01-05 00:00:00-05:00").
FormatTimestamp(tz, w) ==
    [day |-> w.day, hour |-> w.hour,
     offset |-> IF Aware(tz) THEN Some(OffsetOf(tz, w)) ELSE None]

\* DataFrame.to_csv: the index under its name "Date", then every column.
to_csv(df) ==
    [header |-> {"Date"} \cup df.columns,
     records |-> [i \in DOMAIN df.rows |->
        [c \in {"Date"} \cup df.columns |->
            IF c = "Date" THEN FormatTimestamp(df.tz, df.rows[i].index)
            ELSE IF c = "HasEarningsReport" THEN FormatBool(df.rows[i][c])
            ELSE FormatInt(df.rows[i][c])]]]

\* The wall-clock reading taken as UTC, the written offset ignored.
to_datetime_ignoring_offset(t) == t.day * 24 + t.hour

\* pd.to_datetime(..., utc=True) of one parsed date: the instant the text
\* denotes; text without an offset is taken as UTC.
to_datetime_utc(t) ==
    t.day * 24 + t.hour - (IF IsNone(t.offset) THEN 0 ELSE Get(t.offset))

\* Lines 59-67.
load_historical_data(file) ==
    [tz |-> NewYork,
     columns |-> file.header \ {"Date"},
     rows |-> [i \in DOMAIN file.records |->
        [c \in {"index"} \cup (file.header \ {"Date"}) |->
            IF c = "index" THEN WallAt(NewYork, to_datetime_utc(file.records[i].Date))
            ELSE IF c = "HasEarningsReport" THEN ParseBool(file.records[i][c])
            ELSE ParseInt(file.records[i][c])]]]

\* Annotated series: what fetch_historical_data or load_historical_data
\* can have produced.
ZeroOpenQuote == [Open |-> 0, High |-> 6, Low |-> 0, Close |-> 5, Volume |-> 10]
SeriesQuotes == {ValidQuote, ZeroOpenQuote}

AnnotatedRows(hours, quotes) ==
    {("HasEarningsReport" :> f) @@ b : b \in RawBars(hours, quotes), f \in BOOLEAN}

AnnotatedSeries(tzs, hours, quotes) ==
    [tz : tzs,
     columns : {QuoteColumns \cup {"HasEarningsReport"}},
     rows : SeqsUpTo(AnnotatedRows(hours, quotes), MaxBars)]

InitCodec ==
    /\ series \in AnnotatedSeries(Timezones, BarHours, SeriesQuotes)
    /\ csv = None /\ loaded = None
    /\ IdleFetch /\ IdleChart /\ IdleSummarizer

Save ==
    /\ csv = None
    /\ csv' = Some(to_csv(series))
    /\ loaded' = None
    /\ UNCHANGED <<series, fetchVars, chartVars, summarizerVars>>

Load ==
    /\ csv # None
    /\ loaded = None
    /\ loaded' = Some(load_historical_data(Get(csv)))
    /\ UNCHANGED <<series, csv, fetchVars, chartVars, summarizerVars>>

NextCodec == Save \/ Load

SpecCodec == InitCodec /\ [][NextCodec]_vars

(***************************************************************************)
(* plot_candle_interactive                                                 *)
(***************************************************************************)
RECURSIVE GCD(_, _)
GCD(a, b) == IF b = 0 THEN a ELSE GCD(b, a % b)

Abs(n) == IF n < 0 THEN -n ELSE n

\* A float: a finite value num/den in lowest terms (den > 0), or one of
\* IEEE-754's inf, -inf, nan.
Finite(n, d) ==
    LET g == GCD(Abs(n), Abs(d))
        sgn == IF d < 0 THEN -1 ELSE 1
    IN [kind |-> "finite", num |-> sgn * (n \div g), den |-> sgn * (d \div g)]

NotFinite(kind) == [kind |-> kind, num |-> 0, den |-> 0]

\* numpy float division x / y.
FloatDiv(x, y) ==
    IF y # 0 THEN Finite(x, y)
    ELSE IF x > 0 THEN NotFinite("inf")
    ELSE IF x < 0 THEN NotFinite("-inf")
    ELSE NotFinite("nan")

\* Line 122: (Close - Open) / Open * 100.
PercentChange(open, close) ==
    LET q == FloatDiv(close - open, open)
    IN IF q.kind = "finite" THEN Finite(q.num * 100, q.den) ELSE q

\* `if start_date:` - None is falsy, a Timestamp or non-empty string truthy.
Truthy(bound) == ~IsNone(bound)

\* Lines 110-113: pd.to_datetime(bound).tz_localize(data['Date'].dt.tz).
LocalizeBound(bound, tz) ==
    IF Truthy(bound) THEN tz_localize(Get(bound).tz, tz)
    ELSE [raised |-> FALSE, tz |-> tz]

\* The start bound taken as exclusive.
After(tz, date, bound) == Instant(tz, date) > Instant(tz, bound)

\* Lines 117, 119: the comparison of one 'Date' value with a bound.
AtOrAfter(tz, date, bound) == Instant(tz, date) >= Instant(tz, bound)
AtOrBefore(tz, date, bound) == Instant(tz, date) <= Instant(tz, bound)

\* Lines 116-119: the frame the rest of the function works on.
FilterRange(df, start_date, end_date) ==
    LET afterStart ==
            IF Truthy(start_date)
            THEN Mask(df, [i \in DOMAIN df.rows |->
                            AtOrAfter(df.tz, df.rows[i].Date, Get(start_date))])
            ELSE df
    IN IF Truthy(end_date)
       THEN Mask(afterStart, [i \in DOMAIN afterStart.rows |->
                            AtOrBefore(df.tz, afterStart.rows[i].Date, Get(end_date))])
       ELSE afterStart

\* Lines 125-136: the candlestick trace.
Candlestick(df) ==
    [i \in DOMAIN df.rows |->
        [x |-> df.rows[i].Date, open |-> df.rows[i].Open, high |-> df.rows[i].High,
         low |-> df.rows[i].Low, close |-> df.rows[i].Close,
         percent |-> df.rows[i]["Percent Change"]]]

\* A marker for every charted bar, the HasEarningsReport mask left out.
MarkEveryBar(df) ==
    [i \in DOMAIN df.rows |-> [x |-> df.rows[i].Date, y |-> df.rows[i].Close]]

\* Lines 139-151: the earnings-day scatter trace.
EarningsMarkers(df) ==
    LET earnings_dates ==
            Mask(df, [i \in DOMAIN df.rows |-> df.rows[i].HasEarningsReport = TRUE])
    IN [i \in DOMAIN earnings_dates.rows |->
        [x |-> earnings_dates.rows[i].Date, y |-> earnings_dates.rows[i].Close]]

\* The whole call: [raised, caller (the caller's frame afterwards), tz,
\* candlestick, markers].
plot_candle_interactive(df, start_date, end_date) ==
    LET withDate == SetColumn(df, "Date", [i \in DOMAIN df.rows |-> df.rows[i].index])
        start == LocalizeBound(start_date, df.tz)
        end == LocalizeBound(end_date, df.tz)
        filtered == FilterRange(withDate, start_date, end_date)
        charted == SetColumn(filtered, "Percent Change",
                      [i \in DOMAIN filtered.rows |->
                          PercentChange(filtered.rows[i].Open, filtered.rows[i].Close)])
        sameObject == ~Truthy(start_date) /\ ~Truthy(end_date)
    IN IF start.raised \/ end.raised
       THEN [raised |-> TRUE, caller |-> withDate, tz |-> df.tz,
             candlestick |-> <<>>, markers |-> <<>>]
       ELSE [raised |-> FALSE,
             caller |-> IF sameObject THEN charted ELSE withDate,
             tz |-> df.tz,
             candlestick |-> Candlestick(charted),
             markers |-> EarningsMarkers(charted)]

\* Date bounds a caller may pass: none, a date without timezone
\* ('2024-01-01'), or a timestamp that carries one.
Bounds ==
    {None} \cup {Some([day |-> d, hour |-> 0, tz |-> Naive]) : d \in Days}
           \cup {Some([day |-> 0, hour |-> 0, tz |-> UTC])}

InitChart ==
    /\ data \in AnnotatedSeries(Timezones, {0}, SeriesQuotes)
    /\ dataBefore = data
    /\ plotArgs = None /\ plotResult = None
    /\ IdleFetch /\ IdleCodec /\ IdleSummarizer

Plot ==
    /\ plotResult = None
    /\ \E start_date \in Bounds, end_date \in Bounds :
        LET r == plot_candle_interactive(data, start_date, end_date)
        IN /\ plotArgs' = Some([start_date |-> start_date, end_date |-> end_date])
           /\ plotResult' = Some(r)
           /\ data' = r.caller
    /\ UNCHANGED <<dataBefore, fetchVars, codecVars, summarizerVars>>

NextChart == Plot

SpecChart == InitChart /\ [][NextChart]_vars

(***************************************************************************)
(* TextSummarizer                                                          *)
(***************************************************************************)
\* Python values the summarizer holds: a str (its characters) or, for a
\* response whose content is not text, a list.
Str(chars) == [type |-> "str", chars |-> chars]
List == [type |-> "list", chars |-> <<>>]

Chars == {"a", " ", "\n"}
Strings == {Str(c) : c \in SeqsUpTo(Chars, MaxLen)}

\* Transcript texts: the empty text, and texts of one character.
Transcripts == {Str(c) : c \in SeqsUpTo({"a", "\n"}, 1)}

RECURSIVE Split(_, _)
\* str.split(sep): the pieces between the separators, at least one.
Split(s, sep) ==
    IF \A i \in DOMAIN s : s[i] # sep THEN <<s>>
    ELSE LET k == CHOOSE i \in DOMAIN s : s[i] = sep /\ \A j \in 1..(i - 1) : s[j] # sep
         IN <<SubSeq(s, 1, k - 1)>> \o Split(SubSeq(s, k + 1, Len(s)), sep)

RECURSIVE Strip(_)
\* str.strip(): leading and trailing whitespace removed.
Strip(s) ==
    IF s = <<>> THEN s
    ELSE IF s[1] \in {" ", "\n"} THEN Strip(Tail(s))
    ELSE IF s[Len(s)] \in {" ", "\n"} THEN Strip(SubSeq(s, 1, Len(s) - 1))
    ELSE s

RECURSIVE Join(_, _)
\* sep.join(pieces).
Join(pieces, sep) ==
    IF pieces = <<>> THEN <<>>
    ELSE IF Len(pieces) = 1 THEN pieces[1]
    ELSE pieces[1] \o <<sep>> \o Join(Tail(pieces), sep)

\* Lines 75-77: one bullet per non-blank line.  A value that is not a str
\* has no split(): AttributeError.
format_summary(value) ==
    IF value.type # "str" THEN [raised |-> TRUE, value |-> value]
    ELSE LET bullet_points == Split(value.chars, "\n")
             kept == SelectIdx([i \in DOMAIN bullet_points |-> Strip(bullet_points[i]) # <<>>],
                               1, Len(bullet_points))
             lines == [k \in DOMAIN kept |-> <<"bullet", " ">> \o Strip(bullet_points[kept[k]])]
         IN [raised |-> FALSE, value |-> Str(Join(lines, "\n"))]

\* The summarizer object: [text_content, summary, modelCalls, escaped, lastCall].
\* lastCall = [method, branch] names the call made last and the path it took.
Summarizer ==
    [text_content |-> text_content, summary |-> summary, modelCalls |-> modelCalls,
     escaped |-> escaped, lastCall |-> lastCall]

\* What open()/read() of self.file_path does: raises, or yields the text.
FileOutcomes == {[raised |-> TRUE, text |-> Str(<<>>)]}
                \cup {[raised |-> FALSE, text |-> t] : t \in Transcripts}

\* What self.model(prompt) does: raises, returns an object without a
\* content attribute, or returns a response with content.
ModelOutcomes ==
    {[raised |-> TRUE, hasContent |-> FALSE, content |-> List],
     [raised |-> FALSE, hasContent |-> FALSE, content |-> List]}
    \cup {[raised |-> FALSE, hasContent |-> TRUE, content |-> c] : c \in Strings \cup {List}}

\* Lines 31-37.
load_text(self, file) ==
    IF file.raised
    THEN [self EXCEPT !.text_content = None,
                      !.lastCall = [method |-> "load_text", branch |-> "error"]]
    ELSE [self EXCEPT !.text_content = Some(file.text),
                      !.lastCall = [method |-> "load_text", branch |-> "loaded"]]

\* `if self.text_content:` - None and the empty string are falsy.
HasText(tc) == ~IsNone(tc) /\ Get(tc).chars # <<>>

\* Lines 54-61: what happens to self.summary once the model has answered.
\* The assignment of line 55 stands even when format_summary then raises.
TakeResponse(self, response) ==
    IF response.hasContent
    THEN LET formatted == format_summary(response.content)
         IN IF formatted.raised
            THEN [self EXCEPT !.summary = Some(response.content),
                              !.lastCall = [method |-> "summarize_text", branch |-> "format_error"]]
            ELSE [self EXCEPT !.summary = Some(formatted.value),
                              !.lastCall = [method |-> "summarize_text", branch |-> "summarized"]]
    ELSE [self EXCEPT !.lastCall = [method |-> "summarize_text", branch |-> "no_content"]]

\* The handler of lines 62-63, also resetting the summary.
ModelFailedClearingSummary(self) ==
    [self EXCEPT !.summary = None,
                 !.lastCall = [method |-> "summarize_text", branch |-> "model_error"]]

\* Lines 62-63: `except Exception` around the model call.
ModelFailed(self) ==
    [self EXCEPT !.lastCall = [method |-> "summarize_text", branch |-> "model_error"]]

\* Lines 43-65.
summarize_text(self, response) ==
    IF HasText(self.text_content)
    THEN LET called == [self EXCEPT !.modelCalls = @ + 1]
         IN IF response.raised THEN ModelFailed(called) ELSE TakeResponse(called, response)
    ELSE [self EXCEPT !.lastCall = [method |-> "summarize_text", branch |-> "no_text"]]

\* Lines 83-84.
run(self, file, response) == summarize_text(load_text(self, file), response)

InitSummarizer ==
    /\ text_content = None /\ summary = None
    /\ lastCall = [method |-> "__init__", branch |-> "constructed"]
    /\ modelCalls = 0 /\ escaped = FALSE
    /\ IdleFetch /\ IdleCodec /\ IdleChart

LoadText ==
    \E file \in FileOutcomes :
        LET self == load_text(Summarizer, file)
        IN /\ text_content' = self.text_content
           /\ summary' = self.summary
           /\ modelCalls' = self.modelCalls
           /\ escaped' = self.escaped
           /\ lastCall' = self.lastCall
           /\ UNCHANGED <<fetchVars, codecVars, chartVars>>

SummarizeText ==
    /\ modelCalls < MaxCalls
    /\ \E response \in ModelOutcomes :
        LET self == summarize_text(Summarizer, response)
        IN /\ text_content' = self.text_content
           /\ summary' = self.summary
           /\ modelCalls' = self.modelCalls
           /\ escaped' = self.escaped
           /\ lastCall' = self.lastCall
           /\ UNCHANGED <<fetchVars, codecVars, chartVars>>

Run ==
    /\ modelCalls < MaxCalls
    /\ \E file \in FileOutcomes, response \in ModelOutcomes :
        LET self == run(Summarizer, file, response)
        IN /\ text_content' = self.text_content
           /\ summary' = self.summary
           /\ modelCalls' = self.modelCalls
           /\ escaped' = self.escaped
           /\ lastCall' = self.lastCall
           /\ UNCHANGED <<fetchVars, codecVars, chartVars>>

\* app.py line 41: the route assigns the uploaded text itself.
SetTextContent ==
    /\ \E t \in Transcripts : text_content' = Some(t)
    /\ lastCall' = [method |-> "summarize", branch |-> "text_content_set"]
    /\ UNCHANGED <<summary, modelCalls, escaped, fetchVars, codecVars, chartVars>>

NextSummarizer == LoadText \/ SummarizeText \/ Run \/ SetTextContent

SpecSummarizer == InitSummarizer /\ [][NextSummarizer]_vars

(***************************************************************************)
(* Properties of fetch_historical_data                                     *)
(***************************************************************************)
FetchReturned == fetchResult # None /\ ~Get(fetchResult).raised
FetchedFrame == Get(Get(fetchResult).df)

\* The calendar day of a timestamp, time-of-day and timezone discarded.
CalendarDay(w) == w.day

\* C1: every bar of the returned series has HasEarningsReport true exactly
\* when its calendar day is the calendar day of some raw earnings timestamp,
\* whatever the timezones of the bars and of the earnings timestamps.
C1_AnnotationByCalendarDay ==
    FetchReturned =>
        \A i \in DOMAIN FetchedFrame.rows :
            FetchedFrame.rows[i].HasEarningsReport
                <=> \E j \in DOMAIN gateway.earnings :
                        CalendarDay(gateway.earnings[j]) = CalendarDay(gateway.bars[i].index)

\* C3: the returned series is strictly ascending by date, so no two bars
\* share a date, whatever order and days the raw bars have.
C3_StrictlyAscendingDates ==
    FetchReturned =>
        \A i, j \in DOMAIN FetchedFrame.rows :
            i < j => Instant(FetchedFrame.tz, FetchedFrame.rows[i].index)
                        < Instant(FetchedFrame.tz, FetchedFrame.rows[j].index)

InvalidBar(b) == b.Low > b.High \/ b.Volume < 0

\* C6: no raw bar with low > high or negative volume is in the returned
\* series, every valid raw bar is, and the number of bars dropped is the
\* number of invalid raw bars.
C6_InvalidBarsDropped ==
    FetchReturned =>
        LET invalid == {i \in DOMAIN gateway.bars : InvalidBar(gateway.bars[i])}
        IN /\ \A k \in DOMAIN FetchedFrame.rows : ~InvalidBar(FetchedFrame.rows[k])
           /\ Len(gateway.bars) - Len(FetchedFrame.rows) = Cardinality(invalid)

LoadedFrame == Get(loaded)

\* C2: a timezone-aware series in America/New_York, saved and loaded again,
\* has the same number of bars in the same order, each with the same
\* calendar date in the exchange timezone, the same open, high, low, close
\* and volume, and the same HasEarningsReport flag.
C2_RoundTrip ==
    (loaded # None /\ series.tz = NewYork) =>
        /\ LoadedFrame.tz = NewYork
        /\ Len(LoadedFrame.rows) = Len(series.rows)
        /\ \A i \in DOMAIN series.rows :
              /\ CalendarDay(LoadedFrame.rows[i].index) = CalendarDay(series.rows[i].index)
              /\ \A c \in QuoteColumns : LoadedFrame.rows[i][c] = series.rows[i][c]
              /\ LoadedFrame.rows[i].HasEarningsReport = series.rows[i].HasEarningsReport

\* A series that straddles the start of daylight saving time, with an
\* earnings day, has gone through the file.
C2_Witness ==
    /\ loaded # None
    /\ series.tz = NewYork
    /\ Len(series.rows) = MaxBars
    /\ \E i, j \in DOMAIN series.rows :
          /\ OffsetOf(NewYork, series.rows[i].index) # OffsetOf(NewYork, series.rows[j].index)
          /\ series.rows[i].HasEarningsReport
          /\ ~series.rows[j].HasEarningsReport
          /\ LoadedFrame.rows[i].HasEarningsReport

(***************************************************************************)
(* Properties of plot_candle_interactive                                   *)
(***************************************************************************)
Plotted == plotResult # None
Chart == Get(plotResult)
StartDate == Get(plotArgs).start_date
EndDate == Get(plotArgs).end_date

\* Every bound that was supplied came without timezone information.
NaiveBounds ==
    /\ StartDate # None => Get(StartDate).tz = Naive
    /\ EndDate # None => Get(EndDate).tz = Naive

\* Wall-clock order of two readings taken in the same timezone.
NotLater(a, b) == a.day < b.day \/ (a.day = b.day /\ a.hour <= b.hour)

\* Row i of the series passed in lies within the bounds that were supplied,
\* each bound read as a wall-clock time of the series' timezone.
InRange(i) ==
    /\ StartDate # None => NotLater(Get(StartDate), dataBefore.rows[i].index)
    /\ EndDate # None => NotLater(dataBefore.rows[i].index, Get(EndDate))

\* The place, counted from 1, of row i among the rows `kept`, in row order.
Rank(kept, i) == Cardinality({j \in kept : j <= i})

RowsInRange == {i \in DOMAIN dataBefore.rows : InRange(i)}
EarningsRowsInRange == {i \in RowsInRange : dataBefore.rows[i].HasEarningsReport}

SameBar(c, row) ==
    /\ c.x = row.index /\ c.open = row.Open /\ c.high = row.High
    /\ c.low = row.Low /\ c.close = row.Close

\* C4: with bounds given without timezone information the call charts
\* exactly the bars from start_date to end_date, both inclusive, each bound
\* applied only when supplied, in the series' order; with no bound it charts
\* every bar.
C4_InclusiveRange ==
    (Plotted /\ NaiveBounds) =>
        /\ ~Chart.raised
        /\ Chart.tz = dataBefore.tz
        /\ Len(Chart.candlestick) = Cardinality(RowsInRange)
        /\ \A i \in RowsInRange :
              SameBar(Chart.candlestick[Rank(RowsInRange, i)], dataBefore.rows[i])
        /\ (StartDate = None /\ EndDate = None) =>
              /\ Len(Chart.candlestick) = Len(dataBefore.rows)
              /\ \A i \in DOMAIN dataBefore.rows :
                    SameBar(Chart.candlestick[i], dataBefore.rows[i])

\* Both bounds supplied; a bar on the start date and a bar on the end date
\* are charted, in a timezone-aware series.
C4_Witness ==
    /\ Plotted /\ NaiveBounds /\ StartDate # None /\ EndDate # None
    /\ dataBefore.tz = NewYork
    /\ Len(Chart.candlestick) = MaxBars
    /\ \E i, j \in DOMAIN dataBefore.rows :
          /\ dataBefore.rows[i].index.day = Get(StartDate).day
          /\ dataBefore.rows[j].index.day = Get(EndDate).day
          /\ Get(StartDate).day < Get(EndDate).day

\* C7: the call leaves the caller's series as it was: same bars, same
\* columns, same values.
C7_CallerSeriesUntouched ==
    Plotted => data = dataBefore

Undefined == [kind |-> "undefined", num |-> 0, den |-> 0]

\* C8: a charted bar with open # 0 carries (close - open) / open * 100; a
\* charted bar with open = 0 carries no value (it is flagged undefined),
\* and no bar carries inf or NaN.
C8_PercentChangeDefined ==
    (Plotted /\ ~Chart.raised) =>
        \A k \in DOMAIN Chart.candlestick :
            LET c == Chart.candlestick[k]
            IN /\ c.open # 0 =>
                    /\ c.percent.kind = "finite"
                    /\ c.percent.num * c.open = (c.close - c.open) * 100 * c.percent.den
               /\ c.open = 0 => c.percent = Undefined
               /\ c.percent.kind \notin {"inf", "-inf", "nan"}

IsMarkerOf(m, row) == m.x = row.index /\ m.y = row.Close

ModelAnsweredWithContent == lastCall.branch \in {"summarized", "format_error"}

\* C10: in every step no exception escapes; the model is invoked only by
\* summarize_text, once, with text_content non-empty; a load_text that
\* failed leaves text_content None; summary changes only in a step whose
\* model call returned a response with content, so a summarize_text that was
\* skipped or whose model call failed leaves summary as it was, and summary
\* is None as long as no model call has been made.
C10_SummarizerSafety ==
    [][ /\ ~escaped'
        /\ modelCalls' # modelCalls =>
              /\ modelCalls' = modelCalls + 1
              /\ lastCall'.method = "summarize_text"
              /\ text_content' # None
              /\ Get(text_content').chars # <<>>
        /\ (lastCall'.method = "load_text" /\ lastCall'.branch = "error") =>
              text_content' = None
        /\ summary' # summary =>
              ModelAnsweredWithContent' /\ modelCalls' = modelCalls + 1
        /\ lastCall'.branch \in {"no_text", "model_error"} => summary' = summary
        /\ modelCalls' = 0 => summary' = None
      ]_vars

\* A model call has failed after an earlier one succeeded, and the earlier
\* summary is still there.
C10_Witness ==
    /\ lastCall = [method |-> "summarize_text", branch |-> "model_error"]
    /\ modelCalls = MaxCalls
    /\ summary # None
    /\ ~escaped

====
